---- MODULE Spec2Model ----
\* A model of the TapTap subscription plugin: the single-flight update
\* checker (taptap_subscribe/__init__.py), the subscription store
\* (taptap_subscribe/config.py) and the HLS downloader
\* (taptap_subscribe/download.py).
EXTENDS Integers, Sequences, FiniteSets, TLC

\* ---------------------------------------------------------------- bounds
MaxCalls == 2      \* invocations of the three entry points
MaxEnv == 1        \* events of the environment: commands, new posts, failures
MaxDCalls == 3     \* download_video calls
MaxDepth == 3      \* nesting of _smart_parse_m3u8 before the interpreter gives up
MaxArr == 2        \* entries of a payload array
MaxObs == 3        \* responses seen by the sniffer in one browser session

\* --------------------------------------------------------------- domains
Callers == {"scheduled", "manual", "forced"}
Targets == {"u1", "u2"}
GroupIds == {1}
FriendIds == {2}
DestIds == GroupIds \cup FriendIds
Ids == {"100", "101"}
None == "none"
Dummy == "dummy"

VARIABLES
    running,      \* TaptapUpdateChecker._running
    lockHolder,   \* owner of TaptapUpdateChecker._check_lock, or None
    waiters,      \* tasks queued on _check_lock, first come first served
    subKeys,      \* entry table of config["subscriptions"]: keys in insertion order, Dummy where deleted
    subVal,       \* config["subscriptions"][t]: the two destination lists
    history,      \* config["history"]: target -> last seen id, None where absent
    live,         \* the origin: latest post id of each target
    pc,           \* position of each entry point's task
    loc,          \* locals of check_all_subscriptions of each task
    calls, env,   \* counters that bound the run
    it,           \* observation of each task's per-target iteration in progress
    last,         \* observation of the iteration that ended last
    cyc,          \* observation of the cycle that started last
    sinkFailed,   \* <<target, id>> whose delivery raised out of send_post_content
    retried       \* a later cycle extracted an id of sinkFailed again

\* the downloader (download.py)
VARIABLES
    origin,       \* what the origin serves for each manifest URL
    files,        \* the cache directory: file name -> size in bytes, Absent when missing
    dpc,          \* position of the download_video call
    dl,           \* locals of download_video and what the call was observed to do
    dcalls        \* download_video calls made

\* the extractor (parsers/taptap/common.py)
VARIABLES
    epc,          \* position of the _parse_post_detail call
    ex,           \* locals of _parse_post_detail and what the call was observed to do
    rv,           \* a _resolve_nuxt_value call: its arguments and its result
    sd,           \* a send_post_content call: its arguments, the sink and its result
    ls            \* a _parse_user_data_for_latest call: its payload and its result

pollerVars == <<running, lockHolder, waiters, subKeys, subVal, history, live, pc, loc,
                calls, env, it, last, cyc, sinkFailed, retried>>

dlVars == <<origin, files, dpc, dl, dcalls>>

exVars == <<epc, ex, rv, sd, ls>>

vars == <<pollerVars, dlVars, exVars>>

store == <<subKeys, subVal, history>>

\* --------------------------------------------------------------- helpers
NoDests == [groups |-> <<>>, friends |-> <<>>]

Range(s) == {s[i] : i \in 1..Len(s)}

RECURSIVE Remove(_, _)
\* list.remove(x): drops the first occurrence
Remove(s, x) ==
    IF s = <<>> THEN <<>>
    ELSE IF Head(s) = x THEN Tail(s)
    ELSE <<Head(s)>> \o Remove(Tail(s), x)

\* len(subscriptions): the live keys
Used == Cardinality({i \in 1..Len(subKeys) : subKeys[i] # Dummy})

LiveKeys == Range(subKeys) \ {Dummy}

HasKey(t) == \E i \in 1..Len(subKeys) : subKeys[i] = t

\* the dict iterator's next live entry at or after pos, 0 when exhausted
NextEntry(pos) ==
    IF \E i \in pos..Len(subKeys) : subKeys[i] # Dummy
    THEN CHOOSE i \in pos..Len(subKeys) :
            subKeys[i] # Dummy /\ \A j \in pos..(i - 1) : subKeys[j] = Dummy
    ELSE 0

InCycle(c) == pc[c] \in {"fetch", "detail", "send", "sleep2", "sleep5"}

NoLoc == [pos |-> 0, size |-> 0, user |-> None, det |-> FALSE, latest |-> None,
          videos |-> <<>>, gi |-> 0]

NoIt == [user |-> None, same |-> FALSE, differ |-> FALSE, nx |-> 0,
         dg |-> [d \in DestIds |-> 0], wr |-> 0, touched |-> FALSE,
         exterr |-> FALSE, upd |-> FALSE, updAll |-> FALSE, reg |-> {}]

NoCyc == [exit |-> None, keys0 |-> {}, visited |-> {}, touched |-> FALSE,
          errSeen |-> FALSE, afterErr |-> FALSE]


VideoLists == {<<>>, <<"m3u8">>}

GroupsOf(l) == IF l.det THEN <<>> ELSE subVal[l.user].groups
FriendsOf(l) == IF l.det THEN <<>> ELSE subVal[l.user].friends

\* ------------------------------------------------- check_all_subscriptions
\* Each operator below computes what one task does between two awaits, as a
\* record of the values it leaves behind.

\* `return` at line 209: the lock is released, the try block was never entered
\* what is kept of an iteration once it has ended: the iterations that found a
\* new post and were disturbed neither by a command nor by a failure of the
\* origin, the sink or the disk
Summary(itv) ==
    IF itv.differ /\ ~itv.touched /\ ~itv.exterr THEN itv ELSE NoIt

SkipRes(c) ==
    [pc |-> "idle", loc |-> NoLoc, run |-> running, hold |-> None, hist |-> history,
     it |-> NoIt, last |-> last, cyc |-> [NoCyc EXCEPT !.exit = "skipped"]]

ExitRes_NoReset(c, kind, fin, cy, h) ==
    [pc |-> "idle", loc |-> NoLoc, run |-> TRUE, hold |-> None, hist |-> h,
     it |-> NoIt, last |-> Summary(fin), cyc |-> [cy EXCEPT !.exit = kind]]

\* leaving the try block: `finally: self._running = False`, then the lock is released
ExitRes(c, kind, fin, cy, h) ==
    [pc |-> "idle", loc |-> NoLoc, run |-> FALSE, hold |-> None, hist |-> h,
     it |-> NoIt, last |-> Summary(fin), cyc |-> [cy EXCEPT !.exit = kind]]

\* the head of `for user_id, targets in subscriptions.items()`: the dict
\* iterator raises RuntimeError when the dict changed size, stops when it is
\* exhausted, and otherwise binds the next target and awaits its listing
AdvanceRes(c, l, fin, cy, h) ==
    IF Used # l.size THEN ExitRes(c, "changed", fin, cy, h)
    ELSE IF NextEntry(l.pos) = 0 THEN ExitRes(c, "done", fin, cy, h)
    ELSE LET n == NextEntry(l.pos)
             u == subKeys[n]
         IN [pc |-> "fetch",
             loc |-> [NoLoc EXCEPT !.pos = n + 1, !.size = l.size, !.user = u],
             run |-> TRUE, hold |-> c, hist |-> h,
             it |-> [NoIt EXCEPT !.user = u],
             last |-> Summary(fin),
             cyc |-> [cy EXCEPT !.visited = @ \cup {u},
                                !.afterErr = @ \/ cy.errSeen]]

OnTargetError_Break(c, l, fin, cy, h) ==
    [pc |-> "idle", loc |-> NoLoc, run |-> FALSE, hold |-> None, hist |-> h,
     it |-> NoIt, last |-> Summary(fin), cyc |-> [cy EXCEPT !.exit = "done", !.errSeen = TRUE]]

\* `except Exception as e: ... continue` at the bottom of the per-target body
OnTargetError(c, l, fin, cy, h) ==
    AdvanceRes(c, l, fin, [cy EXCEPT !.errSeen = TRUE], h)

\* lines 211-221: mark running, read the subscriptions, return when there
\* are none, otherwise start iterating
EnterRes(c) ==
    IF Used = 0 THEN ExitRes(c, "empty", last, NoCyc, history)
    ELSE AdvanceRes(c, [NoLoc EXCEPT !.pos = 1, !.size = Used], last,
                    [NoCyc EXCEPT !.keys0 = LiveKeys], history)

Admission_None(locked) == "enter"

\* lines 206-209: `async with self._check_lock` waits while the lock is
\* taken; once inside, a set run flag makes the call return
Admission(locked) ==
    IF locked THEN "wait" ELSE IF running THEN "skip" ELSE "enter"

IdsDiffer_Always(latest, seen) == TRUE

\* line 232
IdsDiffer(latest, seen) == latest # seen

\* send_post_content for one destination; sk gives the sink's answer to each
\* send (TRUE: accepted) and dl the downloader's result.  Returns whether an
\* exception leaves the function and the messages the sink accepted.
\* a failed download that is followed by no message
OkMsg_NoLink(seg) == IF seg THEN <<"video">> ELSE <<>>

\* lines 176-187: the video when there is a segment for it, otherwise the
\* text with the raw link
OkMsg(seg) == IF seg THEN <<"video">> ELSE <<"link">>

RECURSIVE SendVideos(_, _, _, _)
SendVideos(videos, isGroup, mentionAll, sk) ==
    IF videos = <<>> THEN [raised |-> FALSE, sent |-> <<>>]
    ELSE LET v == Head(videos)
             hintFails == v = "m3u8" /\ ~mentionAll /\ ~sk.hint
             dlRaises == v = "m3u8" /\ sk.dl = "raise"
             seg == IF v = "m3u8" THEN sk.dl = "path" ELSE v = "mp4"
             hintMsg == IF v = "m3u8" /\ ~mentionAll /\ sk.hint THEN <<"hint">> ELSE <<>>
             tried == IF hintFails \/ dlRaises THEN FALSE ELSE sk.vid
             okMsg == OkMsg(seg)
             rest == SendVideos(Tail(videos), isGroup, mentionAll, sk)
         IN IF tried
            THEN [raised |-> rest.raised, sent |-> hintMsg \o okMsg \o rest.sent]
            ELSE IF sk.errm
                 THEN [raised |-> rest.raised, sent |-> hintMsg \o <<"errlink">> \o rest.sent]
                 ELSE [raised |-> TRUE, sent |-> hintMsg]

SendPostContent(isGroup, mentionAll0, videos, sk) ==
    LET atAll == mentionAll0 /\ isGroup
        mentionAll == IF atAll THEN sk.atAll ELSE mentionAll0
        head == IF atAll /\ sk.atAll THEN <<"atall">> ELSE <<>>
    IN IF ~mentionAll /\ ~sk.title THEN [raised |-> TRUE, sent |-> head]
       ELSE LET head2 == IF mentionAll THEN head ELSE head \o <<"title">>
            IN IF ~sk.combined
               THEN [raised |-> FALSE,
                     sent |-> head2 \o (IF sk.link THEN <<"rawlink">> ELSE <<>>)]
               ELSE LET vs == SendVideos(videos, isGroup, mentionAll, sk)
                    IN [raised |-> vs.raised, sent |-> head2 \o <<"combined">> \o vs.sent]

SinkOutcomes ==
    [atAll : BOOLEAN, title : BOOLEAN, combined : BOOLEAN, link : BOOLEAN,
     hint : BOOLEAN, vid : BOOLEAN, errm : BOOLEAN, dl : {"path", "none", "raise"}]

\* lines 245-256 from the next element of the groups loop on: the next group
\* is sent to; after the last group the friends loop calls send_post_content
\* without the bot argument, which raises TypeError before anything is sent;
\* with no friends the last-seen id is stored
DeliverRes(c, l, itv, cy, saveOk) ==
    LET gs == GroupsOf(l)
    IN IF l.gi < Len(gs)
       THEN [pc |-> "send", loc |-> [l EXCEPT !.gi = @ + 1], run |-> TRUE, hold |-> c,
             hist |-> history,
             it |-> [itv EXCEPT !.dg[gs[l.gi + 1]] = @ + 1],
             last |-> last, cyc |-> cy]
       ELSE IF FriendsOf(l) # <<>>
       THEN OnTargetError(c, l, itv, cy, history)
       ELSE LET h == [history EXCEPT ![l.user] = l.latest]
                done == [itv EXCEPT !.upd = TRUE, !.wr = @ + 1,
                                    !.updAll = \A d \in itv.reg : itv.dg[d] >= 1]
            IN IF saveOk
               THEN [pc |-> "sleep5", loc |-> l, run |-> TRUE, hold |-> c, hist |-> h,
                     it |-> done, last |-> last, cyc |-> cy]
               ELSE OnTargetError(c, l, [done EXCEPT !.exterr = TRUE], cy, h)

Apply(c, r) ==
    /\ pc' = [pc EXCEPT ![c] = r.pc]
    /\ loc' = [loc EXCEPT ![c] = r.loc]
    /\ running' = r.run
    /\ lockHolder' = r.hold
    /\ history' = r.hist
    /\ it' = [it EXCEPT ![c] = r.it]
    /\ last' = r.last
    /\ cyc' = r.cyc


\* ------------------------------------------------------------ the store
\* what ConfigManager can load: every stored target has a destination
DestLists == {d \in [groups : {<<>>, <<1>>}, friends : {<<>>, <<2>>}] : d # NoDests}

\* the stores the runs start from: u1 with any destinations and either no
\* history or the current post seen; u2, when tracked, pushed to a group
StoreShapes ==
    [keys : {<<>>, <<"u1">>, <<"u1", "u2">>},
     val : [Targets -> DestLists \cup {NoDests}],
     hist : [Targets -> {None, "100"}]]

InitStores ==
    {st \in StoreShapes :
        /\ \A t \in Targets :
            /\ (t \in Range(st.keys)) <=> (st.val[t] # NoDests)
            /\ (t \notin Range(st.keys)) => st.hist[t] = None
        /\ "u2" \in Range(st.keys) =>
            st.val["u2"] = [groups |-> <<1>>, friends |-> <<>>] /\ st.hist["u2"] = "100"}

\* ---------------------------------------------------------- download.py
MinSize == 1024
Retries == 3
Absent == -1

JobIds == {"j1", "j2"}
Final(job) == <<job, "mp4">>     \* CACHE_DIR / f"{file_id}.mp4"
Temp(job) == <<job, "temp.ts">>  \* CACHE_DIR / f"{file_id}_temp.ts"
FileNames == {Final(j) : j \in JobIds} \cup {Temp(j) : j \in JobIds}

SegSizes == {512, 1024, 2000}    \* bytes a segment response can carry
RemuxSizes == {Absent, 512, 2000} \* what ffmpeg can leave at the output path

\* A URL is <<directory, file name>>; a manifest line is blank, a comment, a
\* stream-info tag, or a reference, relative (a file name) or absolute.
Blank == [k |-> "blank"]
Comment == [k |-> "comment"]
StreamInf == [k |-> "inf"]
Rel(n) == [k |-> "ref", abs |-> FALSE, name |-> n]
Abs(d, n) == [k |-> "ref", abs |-> TRUE, dir |-> d, name |-> n]

EntryUrl == <<"d1", "m.m3u8">>
ManifestUrls == {<<"d1", "m.m3u8">>, <<"d1", "lo.m3u8">>, <<"d2", "hi.m3u8">>}

NotFound == [status |-> 404, lines |-> <<>>]
Ok(lines) == [status |-> 200, lines |-> lines]

Gone == [u \in ManifestUrls |-> NotFound]

\* the origins the runs start from
Origins ==
    { Gone,
      [Gone EXCEPT ![EntryUrl] = Ok(<<Comment, Rel("s1.ts"), Blank, Rel("s2.ts")>>)],
      [Gone EXCEPT ![EntryUrl] = Ok(<<Abs("d2", "s1.ts"), Comment, Rel("s2.ts"), Blank>>)],
      [Gone EXCEPT ![EntryUrl] = Ok(<<Comment>>)],
      [Gone EXCEPT ![EntryUrl] = Ok(<<StreamInf>>)],
      [Gone EXCEPT ![EntryUrl] = Ok(<<StreamInf, Rel("m.m3u8")>>)],
      [Gone EXCEPT ![EntryUrl] = Ok(<<StreamInf, Rel("lo.m3u8")>>),
                   ![<<"d1", "lo.m3u8">>] = Ok(<<StreamInf, Rel("m.m3u8")>>)],
      [Gone EXCEPT ![EntryUrl] = Ok(<<StreamInf, Rel("lo.m3u8"), StreamInf,
                                      Abs("d2", "hi.m3u8")>>),
                   ![<<"d1", "lo.m3u8">>] = Ok(<<Rel("s1.ts")>>),
                   ![<<"d2", "hi.m3u8">>] = Ok(<<Comment, Abs("d1", "s1.ts"),
                                                  Rel("s2.ts")>>)] }

\* urljoin(base_url, line) for the lines above; an absolute line is kept
Resolve(url, line) ==
    IF line.abs THEN <<line.dir, line.name>> ELSE <<url[1], line.name>>

RECURSIVE Refs_DropLast(_, _)
Refs_DropLast(url, lines) ==
    IF Len(lines) <= 1 THEN <<>>
    ELSE IF Head(lines).k = "ref"
         THEN <<Resolve(url, Head(lines))>> \o Refs_DropLast(url, Tail(lines))
         ELSE Refs_DropLast(url, Tail(lines))

RECURSIVE Refs(_, _)
\* the non-empty lines that do not start with '#', resolved, in file order
Refs(url, lines) ==
    IF lines = <<>> THEN <<>>
    ELSE IF Head(lines).k = "ref"
         THEN <<Resolve(url, Head(lines))>> \o Refs(url, Tail(lines))
         ELSE Refs(url, Tail(lines))

PickSub_First(subs) == subs[1]

\* line 113: sub_playlists[-1]
PickSub(subs) == subs[Len(subs)]

\* line 96: "#EXT-X-STREAM-INF" in content
IsMaster(lines) == \E i \in 1..Len(lines) : lines[i].k = "inf"

\* the interpreter allowing one more nested call
StackExhausted_Later(depth) == depth > MaxDepth + 1

\* line 113: the nested `await self._smart_parse_m3u8(...)`; the function
\* keeps no record of the manifests it has been through, and the chain of
\* awaiting coroutines ends with RecursionError at the interpreter's
\* recursion limit
StackExhausted(depth) == depth > MaxDepth

RECURSIVE SmartParse(_, _, _)
\* _smart_parse_m3u8: the segment list, or the exception, and the manifests fetched
SmartParse(org, url, depth) ==
    IF StackExhausted(depth) THEN [ok |-> FALSE, err |-> "recursion", urls |-> <<>>, fetches |-> 0]
    ELSE LET resp == IF url \in DOMAIN org THEN org[url] ELSE NotFound
         IN IF resp.status # 200
            THEN [ok |-> FALSE, err |-> "http", urls |-> <<>>, fetches |-> 1]
            ELSE IF IsMaster(resp.lines)
            THEN LET subs == Refs(url, resp.lines)
                 IN IF subs # <<>>
                    THEN LET r == SmartParse(org, PickSub(subs), depth + 1)
                         IN [r EXCEPT !.fetches = @ + 1]
                    ELSE [ok |-> FALSE, err |-> "nosub", urls |-> <<>>, fetches |-> 1]
            ELSE [ok |-> TRUE, err |-> None, urls |-> Refs(url, resp.lines), fetches |-> 1]

\* the locals of one call, with what the call did: err is the exception of
\* the playlist resolution, att the attempts made per segment, wrote the
\* segments appended to the partial file, conv the conversion taken
NoDl == [job |-> None, segs |-> <<>>, i |-> 0, retry |-> 0, bytes |-> 0, manifests |-> 0,
         result |-> None, fetches |-> 0, prevOk |-> FALSE, okJobs |-> {},
         err |-> None, att |-> <<>>, wrote |-> <<>>, conv |-> None]

CacheHit_Never(fs, job) == FALSE

\* line 29: final_video_path.exists()
CacheHit(fs, job) == fs[Final(job)] # Absent

\* lines 74-78: the except block removes the partial file and returns None
FailFiles(fs, job) == [fs EXCEPT ![Temp(job)] = Absent]

\* lines 68-72: the result of the call once remux or rename is over
FinalCheck(fs, job) ==
    IF fs[Final(job)] # Absent /\ fs[Final(job)] > MinSize THEN Final(job) ELSE None

Finish(d, res) ==
    [d EXCEPT !.result = res,
              !.okJobs = IF res # None THEN @ \cup {d.job} ELSE @]

\* ------------------------------------------- parsers/taptap/common.py
\* A JSON value of the payload: an integer, a boolean, a string or null.
IntV(n) == [t |-> "int", n |-> n, s |-> ""]
BoolV(b) == [t |-> "bool", n |-> IF b THEN 1 ELSE 0, s |-> ""]
StrV(x) == [t |-> "str", n |-> 0, s |-> x]
NullV == [t |-> "null", n |-> 0, s |-> ""]

\* the entries payload arrays are built from, and the values looked up
Entries == {IntV(0), IntV(1), IntV(7), StrV("a"), BoolV(TRUE)}
Values == {IntV(n) : n \in -1..(MaxArr + 1)} \cup {BoolV(TRUE), BoolV(FALSE), StrV("a"), NullV}
Arrays == UNION {[1..n -> Entries] : n \in 0..MaxArr}

\* line 104: isinstance(value, int); bool is a subclass of int
IsInt(value) == value.t \in {"int", "bool"}

Resolve_Twice(array, value) ==
    IF IsInt(value) /\ 0 <= value.n /\ value.n < Len(array)
    THEN LET e == array[value.n + 1]
         IN IF IsInt(e) /\ 0 <= e.n /\ e.n < Len(array) THEN array[e.n + 1] ELSE e
    ELSE value

\* _resolve_nuxt_value(root_data, value)
ResolveNuxtValue(array, value) ==
    IF IsInt(value)
    THEN IF 0 <= value.n /\ value.n < Len(array) THEN array[value.n + 1] ELSE value
    ELSE value

NoRv == [called |-> FALSE, array |-> <<>>, value |-> NullV, out |-> NullV]

\* A captured URL is <<video id, quality>>: quality 0 is the root manifest
\* /hls/<id>.m3u8, another number the variant /hls/<id>/<quality>.m3u8; a
\* URL without /hls/<id> has video id "mp4" or "play".
HlsVids == {"77", "88"}
Mp4Url == <<"mp4", 0>>
PlayUrl == <<"play", 0>>
Candidates ==
    {<<"77", q>> : q \in {0, 2204, 2206, 2210, 2212}} \cup {<<"88", 0>>, Mp4Url, PlayUrl}

\* line 683: re.search(r'/hls/([a-zA-Z0-9\-_]+)', v_url)
IsHls(u) == u[1] \in HlsVids

\* line 694
QualityPriority == <<2208, 2206, 2204, 2202>>

\* lines 695-698: get_quality_priority(url)
GetQualityPriority(u) ==
    IF \E i \in 1..Len(QualityPriority) : QualityPriority[i] = u[2]
    THEN (CHOOSE i \in 1..Len(QualityPriority) : QualityPriority[i] = u[2]) - 1
    ELSE Len(QualityPriority)

RECURSIVE InsertSorted(_, _)
InsertSorted(x, s) ==
    IF s = <<>> THEN <<x>>
    ELSE IF GetQualityPriority(Head(s)) <= GetQualityPriority(x)
         THEN <<Head(s)>> \o InsertSorted(x, Tail(s))
         ELSE <<x>> \o s

RECURSIVE SortByPriority(_)
\* line 699: urls.sort(key=get_quality_priority), a stable sort
SortByPriority(s) ==
    IF s = <<>> THEN <<>>
    ELSE InsertSorted(s[Len(s)], SortByPriority(SubSeq(s, 1, Len(s) - 1)))

RECURSIVE GroupOf(_, _)
\* video_dict[vid_id]: the URLs of one video id, in list order
GroupOf(order, vid) ==
    IF order = <<>> THEN <<>>
    ELSE IF Head(order)[1] = vid
         THEN <<Head(order)>> \o GroupOf(Tail(order), vid)
         ELSE GroupOf(Tail(order), vid)

RECURSIVE AddNew(_, _, _)
\* append the members of s that are neither in acc nor in other
AddNew(acc, s, other) ==
    IF s = <<>> THEN acc
    ELSE IF \E i \in 1..Len(acc) : acc[i] = Head(s) THEN AddNew(acc, Tail(s), other)
    ELSE IF \E i \in 1..Len(other) : other[i] = Head(s) THEN AddNew(acc, Tail(s), other)
    ELSE AddNew(Append(acc, Head(s)), Tail(s), other)

RECURSIVE VidOrder(_, _)
\* the keys of video_dict in insertion order
VidOrder(order, acc) ==
    IF order = <<>> THEN acc
    ELSE IF IsHls(Head(order)) /\ ~\E i \in 1..Len(acc) : acc[i] = Head(order)[1]
         THEN VidOrder(Tail(order), Append(acc, Head(order)[1]))
         ELSE VidOrder(Tail(order), acc)

RECURSIVE NonHls(_)
NonHls(order) ==
    IF order = <<>> THEN <<>>
    ELSE IF IsHls(Head(order)) THEN NonHls(Tail(order))
         ELSE <<Head(order)>> \o NonHls(Tail(order))

\* lines 677-704: result["videos"] after the selection over list(captured_videos)
SelectVideos(order, videos0) ==
    LET vids == VidOrder(order, <<>>)
        picks == [k \in 1..Len(vids) |-> SortByPriority(GroupOf(order, vids[k]))[1]]
        unique == AddNew(<<>>, NonHls(order), videos0) \o picks
    IN AddNew(videos0, unique, <<>>)

\* list(captured_videos): a set is listed in an order the program does not choose
Orders(S) ==
    {o \in [1..Cardinality(S) -> S] : \A i, j \in 1..Cardinality(S) : o[i] = o[j] => i = j}

\* the responses the listener can be called with: a signed .m3u8 or an .mp4
\* of the site, the play-info reply, or anything else
Responses ==
    {[kind |-> "media", url |-> u] : u \in Candidates \ {PlayUrl}}
        \cup {[kind |-> "playinfo", url |-> PlayUrl], [kind |-> "other", url |-> PlayUrl]}

\* lines 551-569: what handle_response adds to captured_videos
Classify(resp) == IF resp.kind = "other" THEN {} ELSE {resp.url}

OnClassifyError_Drop(cap) == {}

\* lines 570-573: an exception in handle_response is swallowed
OnClassifyError(cap) == cap

NeedBrowser_Always(apiSuccess, hasVideoId, hasVideoUrl) == TRUE

\* line 539
NeedBrowser(apiSuccess, hasVideoId, hasVideoUrl) ==
    (~apiSuccess) \/ (hasVideoId /\ ~hasVideoUrl)

\* what the API path can leave in result: api_success, a video id, a video
\* URL from play-info, and the "text" key (set at line 397 only)
ApiOutcomes ==
    {o \in [ok : BOOLEAN, vid : BOOLEAN, url : BOOLEAN, text : BOOLEAN] :
        /\ o.url => o.vid
        /\ ~o.ok => (~o.vid /\ ~o.text)}

\* what the comments call can bring: None after a transport error or a
\* non-2xx status, an empty list (also for a non-JSON body), a list of
\* complete entries, a list with an entry lacking optional fields, with an
\* entry whose "author" (or a badge "icon") is null, or with a tap_emoji
\* child that has an image but no "children"
CommentOutcomes == {"none", "empty", "list", "sparse", "nullfield", "emoji"}

\* lines 408-530: whether processing the comments raises; dict.get(k, {})
\* returns None for a null field (line 421), [][0] raises (line 461)
CommentsRaise(c) == c \in {"nullfield", "emoji"}

NoApi == [ok |-> FALSE, vid |-> FALSE, url |-> FALSE, text |-> FALSE]

\* the page payload is parsed whatever the API path did
DomGate_Always(apiSuccess) == TRUE

\* line 583: `if not api_success`
DomGate(apiSuccess) == ~apiSuccess

\* result and the locals of one call, with what the call did: api is what
\* the API path left, seen the URLs the listener was given, dup and errs
\* whether a URL came twice and whether the listener raised; title and
\* summary tell where the value of the field comes from, nuxt what the page
\* payload held, order the captured URLs as they were first captured
NoEx == [api |-> NoApi, apiOk |-> FALSE, videoId |-> FALSE, videos |-> <<>>, text |-> FALSE,
         title |-> "default", summary |-> "default", nuxt |-> None, order |-> <<>>,
         browser |-> FALSE, pageOk |-> FALSE, captured |-> {}, seen |-> {},
         obs |-> 0, dup |-> FALSE, errs |-> FALSE, selected |-> FALSE,
         outcome |-> None, comments |-> None, decided |-> FALSE]

\* ------------------------------------------------ send_post_content
MaxVideos == 2

\* the URLs of a bundle: a playlist, a direct file, anything else
SendUrls == {"m3u8", "mp4", "page"}

SendVideoLists == UNION {[1..n -> SendUrls] : n \in 0..MaxVideos}

NoSd == [called |-> FALSE, isGroup |-> FALSE, mentionAll |-> FALSE, videos |-> <<>>,
         sk |-> [atAll |-> TRUE, title |-> TRUE, combined |-> TRUE, link |-> TRUE,
                 hint |-> TRUE, vid |-> TRUE, errm |-> TRUE, dl |-> "path"],
         raised |-> FALSE, sent |-> <<>>]

\* ------------------------------------- _parse_user_data_for_latest
MaxList == 3

\* payload entries: scalars, an object without the item signature, and items
\* with their id_str and topic values; a string is the sequence of its
\* characters, 0..9 for the digits and 10 for any other character
LInt(n) == [t |-> "int", n |-> n, d |-> <<>>, full |-> FALSE]
LStr(d) == [t |-> "str", n |-> 0, d |-> d, full |-> FALSE]
LNull == [t |-> "null", n |-> 0, d |-> <<>>, full |-> FALSE]
LObj == [t |-> "obj", n |-> 0, d |-> <<>>, full |-> FALSE]
LItem(full, id, topic) ==
    [t |-> "item", n |-> 0, d |-> <<>>, full |-> full, id |-> id, topic |-> topic]

S9 == <<9, 9, 9, 9, 9, 9, 9, 9, 9, 9, 9>>
S1 == <<1, 0, 0, 0, 0, 0, 0, 0, 0, 0, 0, 0>>
S0 == <<0, 9, 9, 9, 9, 9, 9, 9, 9, 9, 9, 8>>
Ten == <<1, 2, 3, 4, 5, 6, 7, 8, 9, 0>>
NonDigit == <<1, 2, 3, 4, 5, 6, 7, 8, 9, 0, 10, 1>>

ListEntries ==
    {LStr(S9), LStr(Ten), LStr(NonDigit), LInt(7), LObj,
     LItem(TRUE, LInt(1), LInt(2)), LItem(TRUE, LStr(S1), LInt(2)),
     LItem(TRUE, LStr(S9), LInt(2)), LItem(TRUE, LStr(S0), LInt(2)),
     LItem(TRUE, LStr(S1), LInt(0)),
     LItem(TRUE, LStr(S1), LInt(9)), LItem(TRUE, LStr(S1), LNull),
     LItem(TRUE, LStr(Ten), LInt(2)), LItem(FALSE, LStr(S1), LInt(2))}

Payloads == UNION {[1..n -> ListEntries] : n \in 0..MaxList}

\* isinstance(x, dict)
IsDict(e) == e.t \in {"item", "obj"}

\* str.isdigit() of a non-empty string
IsDigit(d) == d # <<>> /\ \A i \in 1..Len(d) : d[i] < 10

RECURSIVE Strip(_)
\* int(s) ignores leading zeros
Strip(d) == IF d # <<>> /\ Head(d) = 0 THEN Strip(Tail(d)) ELSE d

RECURSIVE LexLess(_, _)
\* a < b on strings, character by character
LexLess(a, b) ==
    IF b = <<>> THEN FALSE
    ELSE IF a = <<>> THEN TRUE
    ELSE IF Head(a) # Head(b) THEN Head(a) < Head(b)
    ELSE LexLess(Tail(a), Tail(b))

\* the ids compared as text
IdLess_Text(a, b) == LexLess(a, b)

\* line 140: key=lambda x: int(x['id']); int(a) < int(b)
IdLess(a, b) ==
    LET x == Strip(a)
        y == Strip(b)
    IN IF Len(x) # Len(y) THEN Len(x) < Len(y) ELSE LexLess(x, y)

\* lines 119-130: the id of an entry that becomes a candidate, <<>> for the
\* entries that are passed over
CandidateId(data, item) ==
    IF item.t = "item" /\ item.full
    THEN LET moment_id == ResolveNuxtValue(data, item.id)
         IN IF ~(moment_id.t = "str" /\ IsDigit(moment_id.d) /\ Len(moment_id.d) > 10)
            THEN <<>>
            ELSE IF ~IsInt(item.topic) \/ item.topic.n >= Len(data) THEN <<>>
            ELSE IF ~IsDict(data[item.topic.n + 1]) THEN <<>>
            ELSE moment_id.d
    ELSE <<>>

RECURSIVE CandidatesFrom(_, _)
\* lines 116-136: the candidates in payload order
CandidatesFrom(data, i) ==
    IF i > Len(data) THEN <<>>
    ELSE LET c == CandidateId(data, data[i])
         IN (IF c = <<>> THEN <<>> ELSE <<c>>) \o CandidatesFrom(data, i + 1)

RECURSIVE MaxId(_, _)
\* max(candidates, key=...): the first of the greatest
MaxId(best, rest) ==
    IF rest = <<>> THEN best
    ELSE MaxId(IF IdLess(best, Head(rest)) THEN Head(rest) ELSE best, Tail(rest))

\* _parse_user_data_for_latest(data): the id of the returned post, <<>> for None
ParseUserDataForLatest(data) ==
    LET candidates == CandidatesFrom(data, 1)
    IN IF candidates = <<>> THEN <<>> ELSE MaxId(Head(candidates), Tail(candidates))

NoLs == [called |-> FALSE, data |-> <<>>, out |-> <<>>]

\* the extractor at rest
ExIdle ==
    /\ epc = "idle"
    /\ ex = NoEx
    /\ rv = NoRv
    /\ sd = NoSd
    /\ ls = NoLs

\* the downloader at rest with an empty cache
DlIdle ==
    /\ origin = Gone
    /\ files = [f \in FileNames |-> Absent]
    /\ dpc = "idle"
    /\ dl = NoDl
    /\ dcalls = 0

\* the poller at rest with an empty store
PollerIdle ==
    /\ running = FALSE
    /\ lockHolder = None
    /\ waiters = <<>>
    /\ subKeys = <<>>
    /\ subVal = [t \in Targets |-> NoDests]
    /\ history = [t \in Targets |-> None]
    /\ live = [t \in Targets |-> "100"]
    /\ pc = [c \in Callers |-> "idle"]
    /\ loc = [c \in Callers |-> NoLoc]
    /\ calls = 0 /\ env = 0
    /\ it = [c \in Callers |-> NoIt]
    /\ last = NoIt
    /\ cyc = NoCyc
    /\ sinkFailed = {}
    /\ retried = FALSE

InitDL ==
    /\ PollerIdle
    /\ ExIdle
    /\ origin \in Origins
    /\ files = [f \in FileNames |-> Absent]
    /\ dpc = "idle"
    /\ dl = NoDl
    /\ dcalls = 0

\* download_video(m3u8_url, file_id) is called: the cache is looked up
DCall(job) ==
    /\ dpc \in {"idle", "done"}
    /\ dcalls < MaxDCalls
    /\ dcalls' = dcalls + 1
    /\ LET d == [NoDl EXCEPT !.job = job, !.okJobs = dl.okJobs,
                             !.prevOk = job \in dl.okJobs]
       IN IF CacheHit(files, job)
          THEN dpc' = "done" /\ dl' = Finish(d, Final(job))
          ELSE dpc' = "parse" /\ dl' = d
    /\ UNCHANGED <<exVars, pollerVars, origin, files>>

\* _smart_parse_m3u8 returns or raises; with segments the partial file is opened
DParse ==
    /\ dpc = "parse"
    /\ LET r == SmartParse(origin, EntryUrl, 1)
           d == [dl EXCEPT !.fetches = @ + r.fetches, !.manifests = r.fetches,
                           !.err = r.err]
       IN IF r.ok /\ r.urls # <<>>
          THEN /\ dpc' = "seg"
               /\ dl' = [d EXCEPT !.segs = r.urls, !.i = 1,
                                  !.att = [k \in 1..Len(r.urls) |-> 0]]
               /\ files' = [files EXCEPT ![Temp(dl.job)] = 0]
          ELSE /\ dpc' = "done"
               /\ dl' = Finish(d, None)
               /\ files' = FailFiles(files, dl.job)
    /\ UNCHANGED <<exVars, pollerVars, origin, dcalls>>

AfterSegments_NoCheck(d, fs) ==
    /\ dpc' = "ffmpeg" /\ dl' = d /\ files' = fs

\* lines 57-59 once the segment loop is over
AfterSegments(d, fs) ==
    IF d.bytes < MinSize
    THEN /\ dpc' = "done" /\ dl' = Finish(d, None) /\ files' = FailFiles(fs, d.job)
    ELSE /\ dpc' = "ffmpeg" /\ dl' = d /\ files' = fs

Exhausted_OneMore(retry) == retry >= Retries

\* line 46: for retry in range(3), retry the attempt that has just failed
Exhausted(retry) == retry + 1 >= Retries

\* one attempt at the current segment ends: 200 with a body, another
\* status, or an exception
DSeg ==
    /\ dpc = "seg"
    /\ LET d == [dl EXCEPT !.fetches = @ + 1, !.att[dl.i] = @ + 1]
           next(e, fs) ==
               IF e.i >= Len(e.segs) THEN AfterSegments(e, fs)
               ELSE /\ dpc' = "seg"
                    /\ dl' = [e EXCEPT !.i = @ + 1, !.retry = 0]
                    /\ files' = fs
       IN \/ \E sz \in SegSizes :
                next([d EXCEPT !.bytes = @ + sz, !.wrote = Append(@, dl.i)],
                     [files EXCEPT ![Temp(dl.job)] = @ + sz])
          \/ IF Exhausted(dl.retry)
             THEN next(d, files)
             ELSE /\ dpc' = "seg"
                  /\ dl' = [d EXCEPT !.retry = @ + 1]
                  /\ files' = files
    /\ UNCHANGED <<exVars, pollerVars, origin, dcalls>>

\* _has_ffmpeg answers; without ffmpeg the partial file is renamed
DHasFfmpeg ==
    /\ dpc = "ffmpeg"
    /\ \/ /\ dpc' = "remux"
          /\ dl' = [dl EXCEPT !.conv = "remux"]
          /\ UNCHANGED files
       \/ LET fs == [files EXCEPT ![Final(dl.job)] = files[Temp(dl.job)],
                                  ![Temp(dl.job)] = Absent]
          IN /\ files' = fs
             /\ dpc' = "done"
             /\ dl' = Finish([dl EXCEPT !.conv = "rename"], FinalCheck(fs, dl.job))
    /\ UNCHANGED <<exVars, pollerVars, origin, dcalls>>

\* _remux_to_mp4: the subprocess cannot be started (the exception reaches
\* the except block), or ffmpeg ends having written the output or not; the
\* input is removed when the output exists
DRemux ==
    /\ dpc = "remux"
    /\ \/ /\ dpc' = "done"
          /\ dl' = Finish(dl, None)
          /\ files' = FailFiles(files, dl.job)
       \/ \E out \in RemuxSizes :
          LET f1 == IF out = Absent THEN files ELSE [files EXCEPT ![Final(dl.job)] = out]
              fs == IF f1[Final(dl.job)] # Absent /\ f1[Temp(dl.job)] # Absent
                    THEN [f1 EXCEPT ![Temp(dl.job)] = Absent] ELSE f1
          IN /\ files' = fs
             /\ dpc' = "done"
             /\ dl' = Finish(dl, FinalCheck(fs, dl.job))
    /\ UNCHANGED <<exVars, pollerVars, origin, dcalls>>

NextDL ==
    \/ \E j \in JobIds : DCall(j)
    \/ DParse
    \/ DSeg
    \/ DHasFfmpeg
    \/ DRemux

SpecDL == InitDL /\ [][NextDL]_vars

Init ==
    /\ ExIdle
    /\ running = FALSE
    /\ lockHolder = None
    /\ waiters = <<>>
    /\ \E st \in InitStores :
          /\ subKeys = st.keys
          /\ subVal = st.val
          /\ history = st.hist
    /\ live = [t \in Targets |-> "100"]
    /\ pc = [c \in Callers |-> "idle"]
    /\ loc = [c \in Callers |-> NoLoc]
    /\ calls = 0 /\ env = 0
    /\ it = [c \in Callers |-> NoIt]
    /\ last = NoIt
    /\ cyc = NoCyc
    /\ sinkFailed = {}
    /\ retried = FALSE
    /\ DlIdle

\* ------------------------------------------------------------- actions
\* handle_check_update up to its first await: the manual command asks
\* is_running() and finishes when a cycle runs, otherwise it announces the check
Trigger(c) ==
    /\ c = "manual"
    /\ pc[c] = "idle"
    /\ calls < MaxCalls
    /\ calls' = calls + 1
    /\ pc' = IF running THEN pc ELSE [pc EXCEPT ![c] = "call"]
    /\ UNCHANGED <<exVars, dlVars, running, lockHolder, waiters, store, live, loc, env, it,
                   last, cyc, sinkFailed, retried>>

Admit(c, a) ==
    IF a = "skip" THEN Apply(c, SkipRes(c)) ELSE Apply(c, EnterRes(c))

\* check_all_subscriptions is called
CallBody(c) ==
    /\ LET a == Admission(lockHolder # None \/ waiters # <<>>)
       IN IF a = "wait"
          THEN /\ waiters' = Append(waiters, c)
               /\ pc' = [pc EXCEPT ![c] = "waiting"]
               /\ UNCHANGED <<running, lockHolder, history, loc, it, last, cyc>>
          ELSE /\ Admit(c, a)
               /\ UNCHANGED waiters
    /\ UNCHANGED <<exVars, dlVars, subKeys, subVal, live, env, sinkFailed, retried>>

\* handle_check_update after its announcement
Call(c) ==
    /\ c = "manual"
    /\ pc[c] = "call"
    /\ CallBody(c)
    /\ UNCHANGED calls

\* scheduled_check_updates fires, or handle_force_check reaches the call
Invoke(c) ==
    /\ c # "manual"
    /\ pc[c] = "idle"
    /\ calls < MaxCalls
    /\ calls' = calls + 1
    /\ CallBody(c)

\* the lock was released and the first waiter gets it
Wake(c) ==
    /\ pc[c] = "waiting"
    /\ lockHolder = None
    /\ waiters # <<>> /\ Head(waiters) = c
    /\ waiters' = Tail(waiters)
    /\ Admit(c, Admission(FALSE))
    /\ UNCHANGED <<exVars, dlVars, subKeys, subVal, live, calls, env, sinkFailed, retried>>

\* fetch_user_latest_post returns: it raised, or it gave the latest post
FetchDone(c) ==
    /\ pc[c] = "fetch"
    /\ LET l == loc[c]
           id == live[l.user]
           seen == history[l.user]
           reg == Range(GroupsOf(l)) \cup Range(FriendsOf(l))
           obs == [it[c] EXCEPT !.same = (id = seen), !.differ = (id # seen), !.reg = reg]
       IN \/ /\ env < MaxEnv
             /\ env' = env + 1
             /\ Apply(c, OnTargetError(c, l, [it[c] EXCEPT !.exterr = TRUE], cyc, history))
             /\ UNCHANGED retried
          \/ /\ UNCHANGED env
             /\ IF IdsDiffer(id, seen)
                THEN /\ Apply(c, [pc |-> "detail", loc |-> [l EXCEPT !.latest = id],
                                  run |-> TRUE, hold |-> c, hist |-> history,
                                  it |-> [obs EXCEPT !.nx = @ + 1],
                                  last |-> last, cyc |-> cyc])
                     /\ retried' = (retried \/ <<l.user, id>> \in sinkFailed)
                ELSE /\ Apply(c, [pc |-> "sleep5", loc |-> [l EXCEPT !.latest = id],
                                  run |-> TRUE, hold |-> c, hist |-> history,
                                  it |-> obs, last |-> last, cyc |-> cyc])
                     /\ UNCHANGED retried
    /\ UNCHANGED <<exVars, dlVars, waiters, subKeys, subVal, live, calls, sinkFailed>>

\* fetch_post_detail returns (or raises), get_bot, and the first delivery starts
DetailDone(c) ==
    /\ pc[c] = "detail"
    /\ LET l == loc[c]
           bad == [it[c] EXCEPT !.exterr = TRUE]
       IN \/ /\ env < MaxEnv
             /\ env' = env + 1
             /\ \/ Apply(c, OnTargetError(c, l, bad, cyc, history))
                \/ Apply(c, AdvanceRes(c, l, bad, cyc, history))
          \/ \E v \in VideoLists :
                \/ /\ UNCHANGED env
                   /\ Apply(c, DeliverRes(c, [l EXCEPT !.videos = v], it[c], cyc, TRUE))
                \/ /\ env < MaxEnv
                   /\ env' = env + 1
                   /\ GroupsOf(l) = <<>> /\ FriendsOf(l) = <<>>
                   /\ Apply(c, DeliverRes(c, [l EXCEPT !.videos = v], it[c], cyc, FALSE))
    /\ UNCHANGED <<exVars, dlVars, waiters, subKeys, subVal, live, calls, sinkFailed, retried>>

\* send_post_content to a group returns or raises
SendDone(c) ==
    /\ pc[c] = "send"
    /\ LET l == loc[c]
       IN \E raised \in {SendPostContent(TRUE, TRUE, l.videos, sk).raised : sk \in SinkOutcomes} :
            IF raised
            THEN /\ env < MaxEnv
                 /\ env' = env + 1
                 /\ sinkFailed' = sinkFailed \cup {<<l.user, l.latest>>}
                 /\ Apply(c, OnTargetError(c, l, [it[c] EXCEPT !.exterr = TRUE], cyc, history))
            ELSE /\ Apply(c, [pc |-> "sleep2", loc |-> l, run |-> TRUE, hold |-> c,
                              hist |-> history, it |-> it[c], last |-> last,
                              cyc |-> cyc])
                 /\ UNCHANGED <<env, sinkFailed>>
    /\ UNCHANGED <<exVars, dlVars, waiters, subKeys, subVal, live, calls, retried>>

\* the pause after a group delivery ends: next group, or friends, or the update
Sleep2Done(c) ==
    /\ pc[c] = "sleep2"
    /\ LET l == loc[c]
           last1 == l.gi >= Len(GroupsOf(l)) /\ FriendsOf(l) = <<>>
       IN \/ /\ UNCHANGED env
             /\ Apply(c, DeliverRes(c, l, it[c], cyc, TRUE))
          \/ /\ env < MaxEnv
             /\ env' = env + 1
             /\ last1
             /\ Apply(c, DeliverRes(c, l, it[c], cyc, FALSE))
    /\ UNCHANGED <<exVars, dlVars, waiters, subKeys, subVal, live, calls, sinkFailed, retried>>

\* the pause between two targets ends
Sleep5Done(c) ==
    /\ pc[c] = "sleep5"
    /\ Apply(c, AdvanceRes(c, loc[c], it[c], cyc, history))
    /\ UNCHANGED <<exVars, dlVars, waiters, subKeys, subVal, live, calls, env, sinkFailed, retried>>


\* sub_cmd: add_subscription(target, kind, dest) after the profile lookup
Sub(t, kind, d) ==
    /\ env < MaxEnv
    /\ d \notin Range(subVal[t][kind])
    /\ env' = env + 1
    /\ subKeys' = IF HasKey(t) THEN subKeys ELSE Append(subKeys, t)
    /\ subVal' = [subVal EXCEPT ![t][kind] = Append(@, d)]
    /\ it' = [c \in Callers |->
                IF InCycle(c) /\ loc[c].user = t THEN [it[c] EXCEPT !.touched = TRUE]
                ELSE it[c]]
    /\ cyc' = IF running /\ ~HasKey(t) THEN [cyc EXCEPT !.touched = TRUE] ELSE cyc
    /\ UNCHANGED <<exVars, dlVars, running, lockHolder, waiters, history, live, pc, loc, calls, last, sinkFailed, retried>>

\* del_subscription's emptiness test on groups only
Emptied_GroupsOnly(v) == v.groups = <<>>

\* config.py line 70: no destination of either kind is left
Emptied(v) == v.groups = <<>> /\ v.friends = <<>>

\* unsub_cmd: del_subscription(target, kind, dest); the record and its
\* history entry go when both lists are empty
Unsub(t, kind, d) ==
    /\ env < MaxEnv
    /\ HasKey(t)
    /\ d \in Range(subVal[t][kind])
    /\ env' = env + 1
    /\ LET v == [subVal[t] EXCEPT ![kind] = Remove(@, d)]
           gone == Emptied(v)
       IN /\ subVal' = [subVal EXCEPT ![t] = v]
          /\ subKeys' = IF gone
                        THEN [i \in 1..Len(subKeys) |->
                                IF subKeys[i] = t THEN Dummy ELSE subKeys[i]]
                        ELSE subKeys
          /\ history' = IF gone THEN [history EXCEPT ![t] = None] ELSE history
          /\ loc' = [c \in Callers |->
                        IF gone /\ InCycle(c) /\ loc[c].user = t
                        THEN [loc[c] EXCEPT !.det = TRUE] ELSE loc[c]]
          /\ cyc' = IF gone /\ running THEN [cyc EXCEPT !.touched = TRUE] ELSE cyc
    /\ it' = [c \in Callers |->
                IF InCycle(c) /\ loc[c].user = t THEN [it[c] EXCEPT !.touched = TRUE]
                ELSE it[c]]
    /\ UNCHANGED <<exVars, dlVars, running, lockHolder, waiters, live, pc, calls, last,
                   sinkFailed, retried>>

\* the tracked user publishes a post
NewPost(t) ==
    /\ env < MaxEnv
    /\ env' = env + 1
    /\ live[t] = "100"
    /\ live' = [live EXCEPT ![t] = "101"]
    /\ UNCHANGED <<exVars, dlVars, running, lockHolder, waiters, store, pc, loc, calls, it,
                   last, cyc, sinkFailed, retried>>

Next ==
    \/ \E c \in Callers : Trigger(c)
    \/ \E c \in Callers : Call(c)
    \/ \E c \in Callers : Invoke(c)
    \/ \E c \in Callers : Wake(c)
    \/ \E c \in Callers : FetchDone(c)
    \/ \E c \in Callers : DetailDone(c)
    \/ \E c \in Callers : SendDone(c)
    \/ \E c \in Callers : Sleep2Done(c)
    \/ \E c \in Callers : Sleep5Done(c)
    \/ \E t \in Targets : \E d \in GroupIds : Sub(t, "groups", d)
    \/ \E t \in Targets : \E d \in FriendIds : Sub(t, "friends", d)
    \/ \E t \in Targets : \E d \in GroupIds : Unsub(t, "groups", d)
    \/ \E t \in Targets : \E d \in FriendIds : Unsub(t, "friends", d)
    \/ \E t \in Targets : NewPost(t)

Spec == Init /\ [][Next]_vars

\* ------------------------------------------------ _resolve_nuxt_value
InitRV ==
    /\ PollerIdle
    /\ DlIdle
    /\ epc = "idle"
    /\ ex = NoEx
    /\ sd = NoSd
    /\ ls = NoLs
    /\ rv \in {[NoRv EXCEPT !.array = a] : a \in Arrays}

\* _resolve_nuxt_value(root_data, value) is called and returns
ResolveCall(v) ==
    /\ rv' = [called |-> TRUE, array |-> rv.array, value |-> v,
              out |-> ResolveNuxtValue(rv.array, v)]
    /\ UNCHANGED <<pollerVars, dlVars, epc, ex, sd, ls>>

NextRV == \E v \in Values : ResolveCall(v)

SpecRV == InitRV /\ [][NextRV]_vars

\* ------------------------------------------------- _parse_post_detail
InitEx ==
    /\ PollerIdle
    /\ DlIdle
    /\ ExIdle

\* lines 709-713: an exception in the browser block fails the call only
\* when the API path had failed
BrowserException(e) ==
    [e EXCEPT !.outcome = IF e.apiOk THEN "bundle" ELSE "error"]

\* _parse_post_detail(post_id) is called
EStart ==
    /\ epc \in {"idle", "done"}
    /\ epc' = "api"
    /\ ex' = NoEx
    /\ UNCHANGED <<pollerVars, dlVars, rv, sd, ls>>

\* lines 275-402: the API path ends
EApi ==
    /\ epc = "api"
    /\ \E o \in ApiOutcomes :
          ex' = [ex EXCEPT !.api = o, !.apiOk = o.ok, !.videoId = o.vid,
                           !.videos = IF o.url THEN <<PlayUrl>> ELSE <<>>,
                           !.text = o.text,
                           !.title = IF o.ok THEN "api" ELSE "default"]
    /\ epc' = "comments"
    /\ UNCHANGED <<pollerVars, dlVars, rv, sd, ls>>

\* lines 407-547: the comments are in and processed, which can raise out of
\* the call; then the browser is asked for when needed
EComments ==
    /\ epc = "comments"
    /\ \E c \in CommentOutcomes :
          LET e == [ex EXCEPT !.comments = c]
          IN IF CommentsRaise(c)
             THEN epc' = "done" /\ ex' = [e EXCEPT !.outcome = "error"]
             ELSE IF NeedBrowser(ex.apiOk, ex.videoId, ex.videos # <<>>)
             THEN epc' = "browser" /\ ex' = [e EXCEPT !.browser = TRUE, !.decided = TRUE]
             ELSE epc' = "done" /\ ex' = [e EXCEPT !.outcome = "bundle", !.decided = TRUE]
    /\ UNCHANGED <<pollerVars, dlVars, rv, sd, ls>>

\* handle_response runs for one response
ESniff(resp) ==
    /\ epc \in {"browser", "page"}
    /\ ex.obs < MaxObs
    /\ ex' = [ex EXCEPT !.captured = @ \cup Classify(resp),
                        !.seen = @ \cup Classify(resp),
                        !.order = IF Classify(resp) \subseteq Range(@) THEN @
                                  ELSE Append(@, resp.url),
                        !.obs = @ + 1,
                        !.dup = @ \/ (Classify(resp) \cap ex.captured # {})]
    /\ UNCHANGED <<pollerVars, dlVars, epc, rv, sd, ls>>

\* handle_response raises while classifying a response
ESniffError ==
    /\ epc \in {"browser", "page"}
    /\ ex.obs < MaxObs
    /\ ex' = [ex EXCEPT !.captured = OnClassifyError(@), !.obs = @ + 1, !.errs = TRUE]
    /\ UNCHANGED <<pollerVars, dlVars, epc, rv, sd, ls>>

\* the browser cannot be had or page.goto raises
EBrowserFail ==
    /\ epc = "browser"
    /\ epc' = "done"
    /\ ex' = BrowserException(ex)
    /\ UNCHANGED <<pollerVars, dlVars, rv, sd, ls>>

\* lines 579-667: the page is loaded; after a failed API path the payload of
\* the page is parsed: it can hold nothing usable, items without text, or a
\* summary or content text, with or without a title and a video id; the
\* title is taken (line 621), the summary is set (line 666) and
\* result['text'] is read (line 667) when the payload brought a text
EPage ==
    /\ epc = "browser"
    /\ IF ~DomGate(ex.apiOk)
       THEN epc' = "page" /\ ex' = [ex EXCEPT !.pageOk = TRUE]
       ELSE \E nuxt \in {"none", "plain", "text", "titled"}, vid \in BOOLEAN :
               LET txt == nuxt \in {"text", "titled"}
                   e == [ex EXCEPT !.pageOk = TRUE, !.nuxt = nuxt,
                                   !.videoId = IF nuxt = "none" THEN @ ELSE vid,
                                   !.title = IF nuxt = "titled" THEN "dom" ELSE @,
                                   !.summary = IF txt THEN "dom" ELSE @]
               IN IF txt /\ ~e.text
                  THEN epc' = "done" /\ ex' = BrowserException(e)
                  ELSE epc' = "page" /\ ex' = e
    /\ UNCHANGED <<pollerVars, dlVars, rv, sd, ls>>

\* lines 676-715: the captured URLs are listed, selected and returned
ESelect ==
    /\ epc = "page"
    /\ \E o \in Orders(ex.captured) :
          ex' = [ex EXCEPT !.videos = SelectVideos(o, ex.videos),
                           !.selected = TRUE, !.outcome = "bundle"]
    /\ epc' = "done"
    /\ UNCHANGED <<pollerVars, dlVars, rv, sd, ls>>

NextEx ==
    \/ EStart
    \/ EApi
    \/ EComments
    \/ \E resp \in Responses : ESniff(resp)
    \/ ESniffError
    \/ EBrowserFail
    \/ EPage
    \/ ESelect

SpecEx == InitEx /\ [][NextEx]_vars


\* ------------------------------------------------ send_post_content
InitSend == PollerIdle /\ DlIdle /\ ExIdle

\* send_post_content(bot, target, type, detail, mention_all) runs to its end
\* against a sink and a downloader that answer as sk says
SendCall(isGroup, mentionAll, videos, sk) ==
    /\ ~sd.called
    /\ LET r == SendPostContent(isGroup, mentionAll, videos, sk)
       IN sd' = [called |-> TRUE, isGroup |-> isGroup, mentionAll |-> mentionAll,
                 videos |-> videos, sk |-> sk, raised |-> r.raised, sent |-> r.sent]
    /\ UNCHANGED <<pollerVars, dlVars, epc, ex, rv, ls>>

\* one call is followed
NextSend ==
    /\ ~sd.called
    /\ \E isGroup \in BOOLEAN, mentionAll \in BOOLEAN, videos \in SendVideoLists,
          sk \in SinkOutcomes : SendCall(isGroup, mentionAll, videos, sk)

SpecSend == InitSend /\ [][NextSend]_vars

\* ------------------------------------- _parse_user_data_for_latest
InitList == PollerIdle /\ DlIdle /\ ExIdle

\* _parse_user_data_for_latest(data) is called and returns
ListCall(data) ==
    /\ ~ls.called
    /\ ls' = [called |-> TRUE, data |-> data, out |-> ParseUserDataForLatest(data)]
    /\ UNCHANGED <<pollerVars, dlVars, epc, ex, rv, sd>>

\* one call is followed
NextList == ~ls.called /\ \E data \in Payloads : ListCall(data)

SpecList == InitList /\ [][NextList]_vars

\* ---------------------------------------------------------------- claims

\* A call of check_all_subscriptions made in this step by task c
CallsNow(c) ==
    \/ c = "manual" /\ pc[c] = "call" /\ pc'[c] # "call"
    \/ c # "manual" /\ pc[c] = "idle" /\ calls' = calls + 1

\* C1: a call of check_all_subscriptions made while another cycle is in
\* flight returns at once, without waiting for that cycle and without
\* starting a second pass.
C1_ReturnsImmediately ==
    [][\A c \in Callers :
         (CallsNow(c) /\ \E d \in Callers \ {c} : InCycle(d)) => pc'[c] = "idle"]_vars

\* C2: at most one check cycle iterates over the targets at any time.
C2_AtMostOneCycle == Cardinality({c \in Callers : InCycle(c)}) <= 1

\* C2 witness: one task is inside its cycle while another one called and is held back
C2_Witness == \E c, d \in Callers : InCycle(c) /\ pc[d] = "waiting"

\* C3: an iteration that found a new post, undisturbed by commands and by
\* failures of the origin, the sink and the disk, ends with exactly one
\* extraction, exactly one delivery to every registered destination of both
\* classes, and the last-seen id stored after all of them.
C3_DeliveredThenUpdated ==
    last.differ =>
        /\ last.nx = 1
        /\ \A d \in last.reg : last.dg[d] = 1
        /\ last.upd /\ last.updAll

\* C4: when the fetched latest id equals the stored last-seen id, the
\* iteration extracts nothing, delivers nothing and writes nothing to the
\* store, whose last-seen id stays what it was.
C4_NoChangeWhenSame ==
    \A c \in Callers :
        it[c].same =>
            /\ it[c].nx = 0
            /\ \A d \in DestIds : it[c].dg[d] = 0
            /\ it[c].wr = 0
            /\ ~it[c].touched => history[it[c].user] = loc[c].latest

\* C4 witness: an iteration on the equal branch reached its closing pause
C4_Witness == \E c \in Callers : it[c].same /\ pc[c] = "sleep5" /\ ~it[c].touched

\* C5: the run flag is set and the lock is held only while a cycle is in
\* flight: every exit path has reset the one and released the other.
C5_Released ==
    /\ running => \E c \in Callers : InCycle(c)
    /\ lockHolder # None => InCycle(lockHolder)

\* C5 witness: a cycle was left by the exception of the dict iterator, and
\* flag and lock are free
C5_Witness ==
    /\ cyc.exit = "changed"
    /\ \A c \in Callers : ~InCycle(c)
    /\ ~running /\ lockHolder = None

\* C6: a cycle that no command disturbed and that ran to its end has
\* processed every target it started with, whatever failed on the way.
C6_RemainingProcessed ==
    (cyc.exit = "done" /\ ~cyc.touched) => cyc.visited = cyc.keys0

\* C6 witness: a target failed, a later target was processed, the cycle ended
C6_Witness == cyc.exit = "done" /\ cyc.afterErr /\ ~cyc.touched

\* C7: after a delivery raised in one cycle, no later cycle extracts the
\* same content id again.
C7_NoRetry == ~retried


\* C8: once a call has returned the path of a job, a later call for that
\* job returns the same path and fetches neither playlist nor segment.
C8_SecondCallCached ==
    (dpc = "done" /\ dl.prevOk) =>
        (dl.result # None /\ dl.result = Final(dl.job) /\ dl.fetches = 0)

\* C8 witness: a second call for a job whose first call returned its path has returned
C8_Witness == dpc = "done" /\ dl.prevOk /\ dl.result # None /\ dl.result = Final(dl.job)

\* C9: a path returned by download_video names an existing file that passes
\* the size check.
C9_ReturnedPathValid ==
    (dpc = "done" /\ dl.result # None) =>
        (files[dl.result] # Absent /\ files[dl.result] > MinSize)

\* C10: when download_video has failed, the partial file is gone.
C10_PartialRemoved ==
    (dpc = "done" /\ dl.result = None) => files[Temp(dl.job)] = Absent

\* C11: when the bytes written for all segments total less than 1024, the
\* call returns None without having tried remux or rename, there is no file
\* at the final path and the partial file is deleted.
C11_TooSmallFails ==
    (dpc = "done" /\ dl.segs # <<>> /\ dl.bytes < MinSize) =>
        /\ dl.result = None
        /\ dl.conv = None
        /\ files[Final(dl.job)] = Absent
        /\ files[Temp(dl.job)] = Absent

\* C11 witness: a call whose segments brought some bytes, but fewer than 1024, has returned
C11_Witness == dpc = "done" /\ dl.segs # <<>> /\ dl.bytes > 0 /\ dl.bytes < MinSize

\* C12: without ffmpeg, a download that passed the size validation returns
\* the final path, which holds the renamed partial file.
C12_RenamedReturned ==
    (dpc = "done" /\ dl.conv = "rename") =>
        /\ dl.result # None
        /\ dl.result = Final(dl.job)
        /\ files[Final(dl.job)] = dl.bytes

\* C13: segments are attempted in playlist order, each at most 3 times; the
\* segments written are in playlist order and each is written at most once,
\* by its last attempt; once the loop is over every segment was attempted.
C13_SequentialBestEffort ==
    dl.segs # <<>> =>
        /\ \A k \in 1..Len(dl.segs) : dl.att[k] <= Retries
        /\ \A k \in 1..Len(dl.segs) : (k < dl.i) => dl.att[k] >= 1
        /\ \A k \in 1..Len(dl.segs) : (k > dl.i) => dl.att[k] = 0
        /\ \A a, b \in 1..Len(dl.wrote) : (a < b) => dl.wrote[a] < dl.wrote[b]
        /\ \A a \in 1..Len(dl.wrote) :
              dl.wrote[a] < dl.i \/ (dl.wrote[a] = dl.i /\ dpc # "seg")
        /\ (dpc # "seg") => \A k \in 1..Len(dl.segs) : dl.att[k] >= 1

\* C13 witness: the first segment failed 3 times and was skipped, the second was written
C13_Witness ==
    /\ dpc # "seg" /\ Len(dl.segs) = 2
    /\ dl.att[1] = Retries /\ dl.wrote = <<2>>

\* a line that is a reference: not empty, not starting with '#'
IsRef(line) == line.k = "ref"

\* the references of a manifest at url, in file order, each resolved against
\* the directory of url unless it is absolute
Expected(url, lines) ==
    LET refs == SelectSeq(lines, IsRef)
    IN [k \in 1..Len(refs) |->
          IF refs[k].abs THEN <<refs[k].dir, refs[k].name>>
          ELSE <<url[1], refs[k].name>>]

\* C14: the segment list resolved from a media manifest is exactly its
\* non-comment, non-empty lines, each resolved against the manifest's base
\* URL (absolute ones kept), in file order.
C14_MediaInOrder ==
    (dl.fetches > 0 /\ ~IsMaster(origin[EntryUrl].lines) /\ origin[EntryUrl].status = 200) =>
        /\ dl.err = None
        /\ Len(dl.segs) = Len(Expected(EntryUrl, origin[EntryUrl].lines))
        /\ \A k \in 1..Len(dl.segs) :
              dl.segs[k] = Expected(EntryUrl, origin[EntryUrl].lines)[k]

\* C14 witness: a media manifest with an absolute and a relative reference among
\* comment and empty lines has been resolved
C14_Witness ==
    /\ dpc = "seg" /\ ~IsMaster(origin[EntryUrl].lines)
    /\ dl.segs = <<(<<"d2", "s1.ts">>), (<<"d1", "s2.ts">>)>>

\* C15: the segment list resolved from a master manifest is the one resolved
\* from its last sub-manifest reference, relative references being resolved
\* against the master's base URL; a master manifest without a reference
\* makes the resolution fail with the no-sub-playlist error.
C15_MasterLastSub ==
    (dl.fetches > 0 /\ origin[EntryUrl].status = 200 /\ IsMaster(origin[EntryUrl].lines)) =>
        LET subs == Expected(EntryUrl, origin[EntryUrl].lines)
        IN IF Len(subs) = 0
           THEN dl.err = "nosub" /\ dl.segs = <<>>
           ELSE LET r == SmartParse(origin, subs[Len(subs)], 2)
                IN /\ dl.err = r.err
                   /\ Len(dl.segs) = Len(r.urls)
                   /\ \A k \in 1..Len(dl.segs) : dl.segs[k] = r.urls[k]

\* C15 witness: a master manifest listing two sub-manifests has been resolved to
\* the segments of the second
C15_Witness ==
    /\ dpc = "seg" /\ IsMaster(origin[EntryUrl].lines)
    /\ dl.segs = <<(<<"d1", "s1.ts">>), (<<"d2", "s2.ts">>)>>

\* C16: resolve returns array[i] for an integer i with 0 <= i < len(array)
\* (a Python int, so True and False count as 1 and 0) and the value itself
\* otherwise; the entry found is returned as it is, also when it is an
\* integer in range, and an integer out of range is returned, not an error.
C16_OneIndirection ==
    rv.called =>
        IF rv.value.t \in {"int", "bool"} /\ rv.value.n >= 0 /\ rv.value.n < Len(rv.array)
        THEN rv.out = rv.array[rv.value.n + 1]
        ELSE rv.out = rv.value

\* C16 witness: the entry found is itself an integer in range that points elsewhere
C16_Witness ==
    /\ rv.called /\ rv.value = IntV(0) /\ Len(rv.array) = 2
    /\ rv.array[1] = IntV(1) /\ rv.array[2] = StrV("a") /\ rv.out = IntV(1)

\* the captured variants of a video id
Variants(vid) == {u \in ex.captured : u[1] = vid /\ u[2] # 0}

\* the variant the preference list, or else the numeric suffix, designates
Preferred(vid) ==
    LET listed == {u \in Variants(vid) : \E i \in 1..Len(QualityPriority) : QualityPriority[i] = u[2]}
    IN IF listed # {}
       THEN CHOOSE u \in listed : \A w \in listed : GetQualityPriority(u) <= GetQualityPriority(w)
       ELSE CHOOSE u \in Variants(vid) : \A w \in Variants(vid) : u[2] >= w[2]

\* C17: when the root manifest of a video and one or more of its variants
\* were captured, the video list holds exactly one URL of that video: the
\* variant first in the preference list or, when none is listed, the variant
\* with the greatest numeric suffix.
C17_BestVariant ==
    \A vid \in HlsVids :
        (ex.selected /\ <<vid, 0>> \in ex.captured /\ Variants(vid) # {}) =>
            /\ Cardinality({i \in 1..Len(ex.videos) : ex.videos[i][1] = vid}) = 1
            /\ \E i \in 1..Len(ex.videos) : ex.videos[i] = Preferred(vid)

\* a captured URL that is the only candidate of its video, or is of no video
Alone(u) == ~IsHls(u) \/ \A w \in ex.captured : w[1] = u[1] => w = u

\* C18: every URL given to the listener stays captured, however often it
\* came and whatever the listener raised; the video list has no URL twice,
\* and a URL that is the only candidate of its video is in it exactly once.
C18_OncePerUrl ==
    /\ ex.captured = ex.seen
    /\ ex.selected =>
          /\ \A i, j \in 1..Len(ex.videos) : ex.videos[i] = ex.videos[j] => i = j
          /\ \A u \in ex.seen :
                Alone(u) => Cardinality({i \in 1..Len(ex.videos) : ex.videos[i] = u}) = 1

\* C18 witness: a URL came twice, the listener raised once, and the call returned the URL
C18_Witness ==
    /\ ex.selected /\ ex.dup /\ ex.errs
    /\ ex.videos = <<Mp4Url>>

\* C19: the browser is asked for only when the API path failed, or
\* succeeded with a video id and without a video URL, and in a call that
\* reaches the decision it is asked for exactly then.
C19_BrowserIffNeeded ==
    /\ ex.browser => (~ex.api.ok \/ (ex.api.vid /\ ~ex.api.url))
    /\ ex.decided => (ex.browser <=> (~ex.api.ok \/ (ex.api.vid /\ ~ex.api.url)))

\* C19 witness: the API path succeeded with a video id and no URL, and the browser was used
C19_Witness ==
    /\ epc = "done" /\ ex.api.ok /\ ex.api.vid /\ ~ex.api.url
    /\ ex.browser /\ ex.selected

\* C20: a call that got past the comments fails only when the API path
\* failed and the browser path did not get the page.
C20_FailsOnlyIfBothFail ==
    (epc = "done" /\ ex.outcome = "error" /\ ex.decided) => (~ex.apiOk /\ ~ex.pageOk)

\* C21: whatever the comments call brings, the extraction does not fail
\* because of it: a call that did not get past the comments has not failed.
C21_CommentsBestEffort ==
    (epc = "done" /\ ~ex.decided) => ex.outcome # "error"

\* C22: a target has a subscription record exactly when it has a
\* destination of either kind, and the step that deletes the record leaves
\* no last-seen entry for the target.
C22_RecordIffDestination ==
    /\ \A t \in Targets : HasKey(t) <=> (subVal[t] # NoDests)
    /\ [][\A t \in Targets :
            /\ HasKey(t)' <=> (subVal'[t] # NoDests)
            /\ (HasKey(t) /\ ~HasKey(t)') => history'[t] = None]_vars

\* an unsubscribe removed the last destination of a target: the record and
\* the last-seen entry are gone
C22_Witness ==
    /\ Dummy \in Range(subKeys)
    /\ \E t \in Targets : ~HasKey(t) /\ subVal[t] = NoDests /\ live[t] = "100" /\ history[t] = None

\* C25: when the destination accepts the title, the content message and the
\* fallback text, every video URL of the bundle is answered, in order, by the
\* video or by a text carrying its link, whatever the download, the hint and
\* the video message do; a playlist whose download gave no file or raised is
\* answered by the link.
C25_VideoOrLink ==
    (sd.called /\ sd.sk.title /\ sd.sk.combined /\ sd.sk.errm) =>
        LET IsVideoMsg(m) == m \in {"video", "link", "errlink"}
            vm == SelectSeq(sd.sent, IsVideoMsg)
        IN /\ ~sd.raised
           /\ Len(vm) = Len(sd.videos)
           /\ \A i \in 1..Len(vm) :
                (sd.videos[i] = "m3u8" /\ sd.sk.dl # "path") => vm[i] \in {"link", "errlink"}

\* a playlist whose download returned nothing, then a direct file: the link
\* for the first, the video for the second
C25_Witness ==
    /\ sd.called /\ sd.sk.title /\ sd.sk.combined /\ sd.sk.errm /\ sd.sk.vid
    /\ sd.sk.dl = "none"
    /\ sd.videos = <<"m3u8", "mp4">>
    /\ SelectSeq(sd.sent, LAMBDA m : m \in {"video", "link", "errlink"}) = <<"link", "video">>

C23_FallbackBundle ==
    (epc = "done" /\ ~ex.apiOk /\ ex.nuxt = "titled") =>
        (ex.outcome = "bundle" /\ ex.title = "dom" /\ ex.text)

\* C24: once the browser runs after a successful API path, the title, the
\* summary, the text and the video id are what the API path left, the video
\* URLs of the API path stay at the head of the list and no URL is listed
\* twice.
C24_ApiFirst ==
    (ex.api.ok /\ ex.browser) =>
        LET v0 == IF ex.api.url THEN <<PlayUrl>> ELSE <<>>
        IN /\ ex.title = "api" /\ ex.summary = "default"
           /\ ex.text = ex.api.text /\ ex.videoId = ex.api.vid
           /\ Len(ex.videos) >= Len(v0) /\ SubSeq(ex.videos, 1, Len(v0)) = v0
           /\ \A i, j \in 1..Len(ex.videos) : ex.videos[i] = ex.videos[j] => i = j

\* the escalation after a successful API path ended with sniffed URLs in
\* the bundle
C24_Witness ==
    /\ epc = "done" /\ ex.api.ok /\ ex.api.text /\ ex.browser /\ ex.selected
    /\ Len(ex.videos) >= 2 /\ ex.outcome = "bundle"

\* C26: the URLs of the returned list stand in the order in which their
\* assets were first captured.
C26_FirstSeenOrder ==
    ex.selected =>
        LET Asset(u) == IF IsHls(u) THEN <<u[1], 0>> ELSE u
            First(a) == CHOOSE k \in 1..Len(ex.order) :
                            /\ Asset(ex.order[k]) = a
                            /\ \A m \in 1..(k - 1) : Asset(ex.order[m]) # a
        IN \A i, j \in 1..Len(ex.videos) :
              (i < j /\ ex.videos[i] \in Range(ex.order) /\ ex.videos[j] \in Range(ex.order))
                  => First(Asset(ex.videos[i])) < First(Asset(ex.videos[j]))

\* C28: a target with a last-seen entry has a subscription record.
C28_HistoryHasRecord ==
    \A t \in Targets : history[t] # None => HasKey(t)

\* C29: a cycle does not end because the subscriptions changed under it,
\* and when it has ended every target that was subscribed at its start and
\* still is has been checked.
C29_CycleSurvivesCommands ==
    cyc.exit # None =>
        /\ cyc.exit # "changed"
        /\ (cyc.keys0 \cap LiveKeys) \subseteq cyc.visited

====
